---- MODULE Spec2Model ----
(***************************************************************************)
(* Fred (src/main.py): a Discord bot that polls the Epic Games free-games  *)
(* catalog, compares the fetched snapshot with the persisted one, persists *)
(* and announces changes, and gates a scheduled check to the time after    *)
(* 17:01 local time.                                                       *)
(*                                                                         *)
(* The bot is a single asyncio process.  A coroutine runs atomically from  *)
(* one await that really suspends to the next, so every action below is    *)
(* one such stretch of code.  The environment contributes the wall clock,  *)
(* the catalog's answer, the set of destination channels, the outcome of   *)
(* file writes and of message deliveries, and process crashes.             *)
(***************************************************************************)
EXTENDS Integers, Sequences, FiniteSets, TLC

(***************************************************************************)
(* Bounds of the model.                                                    *)
(***************************************************************************)
MaxLen == 1        \* longest currentGames / nextGames list of a snapshot
MaxDay == 1        \* the clock covers the days 0..MaxDay
MaxCalls == 2      \* catalog fetch attempts modelled per month
MaxChannels == 1   \* most "free-games" channels the guilds can hold
MaxFanout == 2     \* the same, in the model of the announce loop
MaxWait == 3       \* minutes the model of the confirmations lets pass
MaxManual == 2     \* /check commands of the owner that can overlap

(***************************************************************************)
(* Program constants.                                                      *)
(***************************************************************************)
TriggerMinute == 1021    \* 17:01 as minutes since local midnight
TickPeriod == 15         \* @tasks.loop(minutes=15)
ConfirmWindow == 1       \* timedelta(minutes=1)
WarnThreshold == 58      \* if call_count > 58: print the warning
MinutesPerDay == 1440

(***************************************************************************)
(* Catalog items.  An item is a JSON object; title is what run_check reads, *)
(* urlSlug stands for every field the comparison ignores.  An item without *)
(* a "title" key yields None from g.get("title").  seller, promotions and  *)
(* keyImages are the fields make_embeds dereferences: each is well formed  *)
(* (or absent, which .get replaces by a default) or is JSON null.          *)
(* description is a text the bot stores and shows: all of its characters   *)
(* are ASCII, or it holds a character that UTF-8 encodes in several bytes. *)
(***************************************************************************)
NoTitle == "None"
WellFormed == "ok"
Null == "null"
AsciiText == "ascii"
MultiByteText == "multibyte"
Item(t, s) ==
    [title |-> t, urlSlug |-> s, description |-> AsciiText,
     seller |-> WellFormed, promotions |-> WellFormed, keyImages |-> WellFormed]
Accented(g) == [g EXCEPT !.description = MultiByteText]
NoSeller(g) == [g EXCEPT !.seller = Null]
NoPromotions(g) == [g EXCEPT !.promotions = Null]
NoKeyImages(g) == [g EXCEPT !.keyImages = Null]
Alpha == Item("Alpha", "alpha")
Beta == Accented(Item("Beta", "beta"))
AlphaV2 == Item("Alpha", "alpha-v2")
Untitled == Item(NoTitle, "x")
UntitledV2 == Item(NoTitle, "y")

Snapshot(current, next) == [currentGames |-> current, nextGames |-> next]

BSeq(S, n) == UNION {[1..k -> S] : k \in 0..n}

\* The catalog answers the interleaving model draws from: the empty catalog,
\* the two snapshots of the specification's example, and a snapshot whose
\* current item has "promotions": null.
Catalog ==
    { Snapshot(<<>>, <<>>),
      Snapshot(<<Alpha>>, <<Beta>>),
      Snapshot(<<Beta>>, <<Alpha>>),
      Snapshot(<<NoPromotions(Beta)>>, <<>>) }

\* The catalog answers the sequential model draws from: every snapshot whose
\* lists are no longer than MaxLen over a titled and an untitled item, and
\* snapshots with the same titles in another order, the same title with
\* other fields, a title listed twice among the upcoming items, two
\* different items without a title, and items with a null field.
Items == {Alpha, Untitled}
ExtraSnapshots ==
    { Snapshot(<<Alpha>>, <<Beta>>),
      Snapshot(<<Beta>>, <<Alpha>>),
      Snapshot(<<Alpha, Beta>>, <<>>),
      Snapshot(<<Beta, AlphaV2>>, <<Alpha>>),
      Snapshot(<<AlphaV2>>, <<Beta, Item("Beta", "beta-v2")>>),
      Snapshot(<<UntitledV2>>, <<Untitled, UntitledV2>>),
      Snapshot(<<NoPromotions(Alpha)>>, <<>>),
      Snapshot(<<NoSeller(Alpha)>>, <<>>),
      Snapshot(<<NoKeyImages(Alpha)>>, <<>>),
      Snapshot(<<Alpha>>, <<NoPromotions(Beta)>>),
      Snapshot(<<Alpha>>, <<NoSeller(Beta)>>),
      Snapshot(<<Alpha>>, <<NoKeyImages(Beta)>>) }
Snapshots ==
    [currentGames : BSeq(Items, MaxLen), nextGames : BSeq(Items, MaxLen)]
        \cup ExtraSnapshots

\* What fetch_games returns: None, or the decoded body.
FetchError == [error |-> TRUE]
Responses == {FetchError} \cup Catalog
DataResponses == {FetchError} \cup Snapshots

(***************************************************************************)
(* The clock, in minutes.  Sampled instants: one tick before the trigger,  *)
(* the trigger and one tick after it, on every day.                        *)
(***************************************************************************)
SampleMinutes == {TriggerMinute - TickPeriod, TriggerMinute,
                  TriggerMinute + TickPeriod}
Times == {d * MinutesPerDay + m : d \in 0..MaxDay, m \in SampleMinutes}
TickTimes == Times
\* The tick of the sequential model: the first day's trigger time.
TriggerTimes == {t \in TickTimes : t = TriggerMinute}
\* The clock of the model of the confirmations: minute by minute, from the
\* trigger time on.
TokenTimes == {TriggerMinute + k * ConfirmWindow : k \in 0..MaxWait}

DateOf(t) == t \div MinutesPerDay          \* now.date()
MinuteOf(t) == t % MinutesPerDay
\* The instants of the first day.
FirstDay == {t \in Times : DateOf(t) = 0}
\* now.strftime("%Y-%m"): day 0 is 2025-01-31, day 1 is 2025-02-01, ...
MonthOf(t) == IF DateOf(t) = 0 THEN "2025-01" ELSE "2025-02"

None == <<>>                               \* last_daily_run = None
DateStr(t) == <<DateOf(t)>>                \* str(now.date())
TimeStr(t) == <<t>>                        \* now.strftime("%Y-%m-%d %H:%M:%S")

Owner == "owner"
Users == {Owner, "guest"}
\* The /check commands in progress: a second one can be issued while the
\* first is suspended.
ManualNames == <<"manual", "manual2", "manual3">>
ManualRuns == {ManualNames[i] : i \in 1..MaxManual}
FirstManual == ManualNames[1]
Runs == {"sched"} \cup ManualRuns

VARIABLES
    posted_games,           \* in-memory list of current items
    posted_upcoming,        \* in-memory list of upcoming items
    last_daily_run,         \* in-memory daily-run marker
    pending_confirmations,  \* dict: user mention -> expiry
    posted_file,            \* content of posted_games.json
    api_calls,              \* content of api_calls.json
    now,                    \* wall clock
    pc,                     \* per run: where its coroutine is suspended
    force,                  \* per run: the force argument of run_check
    todo,                   \* per run: channels the announce loop has left
    posted_to,              \* per run: outcome logged per channel, this loop
    result,                 \* per run: what its last run_check returned
    daily_log               \* time in the last "Running daily check at" line

vars == <<posted_games, posted_upcoming, last_daily_run, pending_confirmations,
          posted_file, api_calls, now, pc, force, todo, posted_to, result,
          daily_log>>

(***************************************************************************)
(* Pure helpers.                                                           *)
(***************************************************************************)
\* {g.get("title") for g in games}
TitleSet(games) == {games[i].title : i \in DOMAIN games}

\* Mutant: the lists are compared, not their title sets.
are_games_same_as_lists(new_games, old_games) ==
    new_games = old_games

are_games_same(new_games, old_games) ==
    TitleSet(new_games) = TitleSet(old_games)

\* increment_api_calls: the record written to api_calls.json at time t.
increment_api_calls(calls, t) ==
    LET count == IF calls.month # MonthOf(t) THEN 0 ELSE calls.count
    IN  [count |-> count + 1, month |-> MonthOf(t)]

\* get_api_call_count on an absent, empty or undecodable api_calls.json.
NoCalls == [count |-> 0, month |-> ""]

\* A file write: it succeeds, open() raises and the file is untouched, or
\* the write raises after open(..., "w") has truncated the file.
WriteOutcomes == {"ok", "open_fails", "write_fails"}

\* The write of posted_games.json can also stop inside a character that
\* UTF-8 encodes in several bytes.
SaveOutcomes == WriteOutcomes \cup {"write_cut"}

\* Lines 49-50: api_calls.json, as get_api_call_count reads it, after
\* increment_api_calls at time t.
CallsAfterWrite(calls, t, counted) ==
    CASE counted = "ok" -> increment_api_calls(calls, t)
      [] counted = "open_fails" -> calls
      [] OTHER -> NoCalls

\* The counter values the model follows: the first MaxCalls attempts of a
\* month, and the attempts around the warning threshold.
CallCap(calls) ==
    IF calls.count < WarnThreshold - 1 THEN MaxCalls
    ELSE WarnThreshold + MaxCalls

\* Line 219: the stored upcoming items that have not become current.
RetainedUpcoming(upcoming, current_games) ==
    SelectSeq(upcoming, LAMBDA g : g.title \notin TitleSet(current_games))

\* Line 222: the fetched upcoming items that are neither current nor listed.
NewUpcoming(next_games, current_games, retained) ==
    SelectSeq(next_games,
              LAMBDA g : /\ g.title \notin TitleSet(current_games)
                         /\ g.title \notin TitleSet(retained))

\* save_posted: the JSON document written to posted_games.json.
save_posted(games, upcoming, daily_run) ==
    [kind |-> "json",
     current |-> games,
     upcoming |-> SelectSeq(upcoming, LAMBDA g : g.title \notin TitleSet(games)),
     last_daily_run |-> daily_run]

\* The state file is absent, or was truncated by an interrupted write: on
\* a character boundary (the bytes decode, the text is not JSON), or inside
\* a character of several bytes (the bytes are not UTF-8).
NoFile == [kind |-> "absent"]
PartialFile == [kind |-> "partial"]
CutFile == [kind |-> "cut"]

\* Line 88, ensure_ascii=False: the document holds a character of several
\* bytes when one of its items does; its keys and its date are ASCII.
HasMultiByte(doc) ==
    \/ \E i \in DOMAIN doc.current : doc.current[i].description = MultiByteText
    \/ \E i \in DOMAIN doc.upcoming : doc.upcoming[i].description = MultiByteText

\* Lines 66-72: json.load raises UnicodeDecodeError, which line 72 does not
\* catch: the module is not imported and the bot does not start.
LoadRaises(file) == file.kind = "cut"

\* Lines 66-75: the in-memory state after loading the state file (when
\* LoadRaises, there is no process to hold a state).
LoadPosted(file) ==
    IF file.kind = "json"
    THEN [current |-> file.current, upcoming |-> file.upcoming,
          last_daily_run |-> file.last_daily_run]
    ELSE [current |-> <<>>, upcoming |-> <<>>, last_daily_run |-> None]

\* Mutant: the gate compares with > instead of >=.
DailyGate_strict(t, daily_run) ==
    MinuteOf(t) > TriggerMinute /\ daily_run # DateStr(t)

\* daily_check, line 485: the scheduler's gate at time t.
DailyGate(t, daily_run) ==
    MinuteOf(t) >= TriggerMinute /\ daily_run # DateStr(t)

\* Line 192, "if not data": None and an empty JSON object are both falsy.
FetchFailed(resp) == resp = FetchError

Init ==
    /\ posted_file = NoFile
    /\ posted_games = LoadPosted(NoFile).current
    /\ posted_upcoming = LoadPosted(NoFile).upcoming
    /\ last_daily_run = LoadPosted(NoFile).last_daily_run
    /\ pending_confirmations = <<>>
    /\ api_calls = NoCalls
    /\ now = TriggerMinute - TickPeriod
    /\ pc = [r \in Runs |-> "idle"]
    /\ force = [r \in Runs |-> FALSE]
    /\ todo = [r \in Runs |-> 0]
    /\ posted_to = [r \in Runs |-> <<>>]
    /\ result = [r \in Runs |-> "None"]
    /\ daily_log = None

\* The bot is not running: its last start failed at the load of line 68.
Down == \A r \in Runs : pc[r] = "down"

(***************************************************************************)
(* Entering run_check: everything up to the suspension in session.get.     *)
(* fetch_games counts the attempt before it issues the request, inside its *)
(* try: when api_calls.json cannot be written, the except clause of line   *)
(* 116 returns None without a request and run_check returns False at once. *)
(***************************************************************************)
StartRun(r, f, t, counted) ==
    /\ pc[r] = "idle"
    /\ counted = "ok"
          => increment_api_calls(api_calls, t).count <= CallCap(api_calls)
    /\ api_calls' = CallsAfterWrite(api_calls, t, counted)
    /\ IF counted = "ok"
       THEN /\ pc' = [pc EXCEPT ![r] = "fetching"]
            /\ force' = [force EXCEPT ![r] = f]
            /\ result' = [result EXCEPT ![r] = "None"]
       ELSE /\ result' = [result EXCEPT ![r] = "Failed"]
            /\ UNCHANGED <<pc, force>>

\* The wall clock advances.
Advance(t) ==
    /\ t > now
    /\ now' = t
    /\ UNCHANGED <<posted_games, posted_upcoming, last_daily_run,
                   pending_confirmations, posted_file, api_calls, pc, force,
                   todo, posted_to, result>>
    /\ UNCHANGED daily_log

\* daily_check: one iteration of the 15-minute loop, at time t.  The loop
\* starts an iteration only after the previous one has returned.  Line 486
\* prints the time of the tick before line 487 calls run_check.
daily_check(t, counted) ==
    /\ t \in TickTimes /\ t > now
    /\ pc["sched"] = "idle"
    /\ now' = t
    /\ IF DailyGate(t, last_daily_run)
       THEN /\ daily_log' = TimeStr(t)
            /\ StartRun("sched", FALSE, t, counted)
       ELSE UNCHANGED <<api_calls, pc, force, result, daily_log>>
    /\ UNCHANGED <<posted_games, posted_upcoming, last_daily_run,
                   pending_confirmations, posted_file, todo, posted_to>>

\* check_slash by the owner: run_check(ctx_mention, force=False, channel).
check_slash(r, counted) ==
    /\ r \in ManualRuns
    /\ StartRun(r, FALSE, now, counted)
    /\ UNCHANGED <<posted_games, posted_upcoming, last_daily_run,
                   pending_confirmations, posted_file, now, todo, posted_to>>
    /\ UNCHANGED daily_log

\* run_check(ctx_mention, force=True, channel).  No command of main.py
\* passes force=True; the action is the function called with that argument.
forced_check(r, counted) ==
    /\ r \in ManualRuns
    /\ StartRun(r, TRUE, now, counted)
    /\ UNCHANGED <<posted_games, posted_upcoming, last_daily_run,
                   pending_confirmations, posted_file, now, todo, posted_to>>
    /\ UNCHANGED daily_log

(***************************************************************************)
(* run_check after the fetch: lines 192-249.                               *)
(***************************************************************************)
\* The mention a manual run carries; the scheduled run carries none.
Mention(r) == Owner

\* run_check returns: one value per return statement (and one for leaving
\* by an exception).  The code's own return value is ReturnValue(result).
Return(r, res) ==
    /\ pc' = [pc EXCEPT ![r] = "idle"]
    /\ force' = [force EXCEPT ![r] = FALSE]
    /\ todo' = [todo EXCEPT ![r] = 0]
    /\ posted_to' = [posted_to EXCEPT ![r] = <<>>]
    /\ result' = [result EXCEPT ![r] = res]

ReturnValue(res) == res \in {"Unchanged", "Changed"}

\* Mutant: a failed fetch is taken for an empty catalog and committed.
run_check_failed_as_empty(r, resp) ==
    /\ pc[r] = "fetching"
    /\ FetchFailed(resp)
    /\ posted_games' = <<>>
    /\ posted_upcoming' = posted_upcoming
    /\ last_daily_run' = DateStr(now)
    /\ posted_file' = save_posted(posted_games', posted_upcoming', last_daily_run')
    /\ Return(r, "Changed")
    /\ UNCHANGED <<pending_confirmations, api_calls, now>>
    /\ UNCHANGED daily_log

\* Mutant: the failure path marks the day as done.
run_check_failed_marks_day(r, resp) ==
    /\ pc[r] = "fetching"
    /\ FetchFailed(resp)
    /\ last_daily_run' = DateStr(now)
    /\ Return(r, "Failed")
    /\ UNCHANGED <<posted_games, posted_upcoming, pending_confirmations,
                   posted_file, api_calls, now>>
    /\ UNCHANGED daily_log

\* Lines 192-194: fetch_games returned None (or a falsy body).
run_check_failed(r, resp) ==
    /\ pc[r] = "fetching"
    /\ FetchFailed(resp)
    /\ Return(r, "Failed")
    /\ UNCHANGED <<posted_games, posted_upcoming, last_daily_run,
                   pending_confirmations, posted_file, api_calls, now>>
    /\ UNCHANGED daily_log

\* Lines 196-203: a scheduled run finds no channel named "free-games".
run_check_no_channels(r, resp) ==
    /\ pc[r] = "fetching"
    /\ r \notin ManualRuns
    /\ ~FetchFailed(resp)
    /\ Return(r, "Failed")
    /\ UNCHANGED <<posted_games, posted_upcoming, last_daily_run,
                   pending_confirmations, posted_file, api_calls, now>>
    /\ UNCHANGED daily_log

\* Mutant: an earlier pending confirmation is not overwritten.
ArmToken_keeps_pending(pending, u, t) ==
    IF u \in DOMAIN pending THEN pending
    ELSE [v \in DOMAIN pending \cup {u} |->
             IF v = u THEN t + ConfirmWindow ELSE pending[v]]

\* Line 212: pending_confirmations[ctx_mention] = now + one minute.
ArmToken(pending, u, t) ==
    [v \in DOMAIN pending \cup {u} |->
        IF v = u THEN t + ConfirmWindow ELSE pending[v]]

\* Line 210: the branch that leaves the stored state alone.
SameAsPosted(resp, games, f) ==
    are_games_same(resp.currentGames, games) /\ ~f

\* Lines 210-214, scheduled run: return True at once.
\* Manual run: arm the confirmation and suspend in the notice's send.
run_check_unchanged(r, resp) ==
    /\ pc[r] = "fetching"
    /\ ~FetchFailed(resp)
    /\ SameAsPosted(resp, posted_games, force[r])
    /\ IF r \in ManualRuns
       THEN /\ pending_confirmations' =
                  ArmToken(pending_confirmations, Mention(r), now)
            /\ pc' = [pc EXCEPT ![r] = "notifying"]
            /\ UNCHANGED <<force, todo, posted_to, result>>
       ELSE /\ Return(r, "Unchanged")
            /\ UNCHANGED pending_confirmations
    /\ UNCHANGED <<posted_games, posted_upcoming, last_daily_run,
                   posted_file, api_calls, now>>
    /\ UNCHANGED daily_log

\* Line 213 completes (line 214), or the send raises.
run_check_notified(r, sent) ==
    /\ pc[r] = "notifying"
    /\ Return(r, IF sent THEN "Unchanged" ELSE "Raised")
    /\ UNCHANGED <<posted_games, posted_upcoming, last_daily_run,
                   pending_confirmations, posted_file, api_calls, now>>
    /\ UNCHANGED daily_log

\* Mutant: the new upcoming items are put before the retained ones.
CommitUpcoming_new_first(resp, upcoming) ==
    LET retained == RetainedUpcoming(upcoming, resp.currentGames)
    IN  NewUpcoming(resp.nextGames, resp.currentGames, retained) \o retained

\* Lines 216-223: the new in-memory lists.
CommitCurrent(resp) == resp.currentGames
CommitUpcoming(resp, upcoming) ==
    LET retained == RetainedUpcoming(upcoming, resp.currentGames)
    IN  retained \o NewUpcoming(resp.nextGames, resp.currentGames, retained)
\* Line 227.
CommitDailyRun(t) == DateStr(t)

\* What the announce loop has to send per channel (lines 230-243).
AnnouncedUpcoming(resp, upcoming) ==
    NewUpcoming(resp.nextGames, resp.currentGames,
                RetainedUpcoming(upcoming, resp.currentGames))
HasEmbeds(resp, upcoming) ==
    resp.currentGames # <<>> \/ AnnouncedUpcoming(resp, upcoming) # <<>>

\* make_embeds raises: g.get("seller", {}) is None and .get fails (line
\* 125); for the current items, g.get("promotions", {}) is None (line 139);
\* g.get("keyImages", []) is None and cannot be iterated (line 152).
make_embeds_raises(games, upcoming) ==
    \E i \in DOMAIN games :
       \/ games[i].seller = Null
       \/ ~upcoming /\ games[i].promotions = Null
       \/ games[i].keyImages = Null

\* Lines 230-231, after the commit and outside any try.
EmbedsRaise(resp, upcoming) ==
    \/ make_embeds_raises(resp.currentGames, FALSE)
    \/ make_embeds_raises(AnnouncedUpcoming(resp, upcoming), TRUE)

\* The file after save_posted: written, untouched because open() raised, or
\* truncated because the write raised after open(..., "w"), on a character
\* boundary or inside a character.

\* Mutant: the state file is not written before the announce loop.
FileAfterSave_deferred(file, doc, outcome) == file

FileAfterSave(file, doc, outcome) ==
    CASE outcome = "ok" -> doc
      [] outcome = "open_fails" -> file
      [] outcome = "write_cut" -> CutFile
      [] OTHER -> PartialFile

\* Lines 216-231 and on to the first send of the announce loop.  nch is the
\* number of destination channels: 1 for a manual run, the channels found
\* by get_free_game_channels for a scheduled one.  An exception of
\* save_posted or of make_embeds leaves run_check with the globals assigned.
\* guild tells whether the channel of a /check belongs to a guild: in a
\* direct message channel.guild is None.  With nothing to send, the loop of
\* line 233 still runs once per channel, and line 245, then line 247,
\* evaluate channel.guild.name: without a guild the AttributeError of line
\* 247 leaves run_check.
run_check_commit(r, resp, nch, outcome, guild) ==
    /\ pc[r] = "fetching"
    /\ ~FetchFailed(resp)
    /\ nch >= 1
    /\ r \in ManualRuns => nch = 1
    /\ r \notin ManualRuns => guild
    /\ ~SameAsPosted(resp, posted_games, force[r])
    /\ posted_games' = CommitCurrent(resp)
    /\ posted_upcoming' = CommitUpcoming(resp, posted_upcoming)
    /\ last_daily_run' = CommitDailyRun(now)
    /\ LET doc == save_posted(posted_games', posted_upcoming', last_daily_run')
       IN  /\ outcome = "write_cut" => HasMultiByte(doc)
           /\ posted_file' = FileAfterSave(posted_file, doc, outcome)
    /\ IF outcome # "ok" \/ EmbedsRaise(resp, posted_upcoming)
       THEN Return(r, "Raised")
       ELSE IF HasEmbeds(resp, posted_upcoming)
            THEN /\ pc' = [pc EXCEPT ![r] = "announcing"]
                 /\ todo' = [todo EXCEPT ![r] = nch]
                 /\ UNCHANGED <<force, posted_to, result>>
            ELSE Return(r, IF guild THEN "Changed" ELSE "Raised")
    /\ UNCHANGED <<pending_confirmations, api_calls, now>>
    /\ UNCHANGED daily_log

\* Mutant: a send that raises ends the loop and the run.
run_check_announce_aborts(r, delivered, guild) ==
    /\ pc[r] = "announcing"
    /\ r \notin ManualRuns => guild
    /\ IF todo[r] > 1 /\ delivered
       THEN /\ todo' = [todo EXCEPT ![r] = todo[r] - 1]
            /\ posted_to' = [posted_to EXCEPT ![r] = Append(@, delivered)]
            /\ UNCHANGED <<pc, force, result>>
       ELSE Return(r, IF delivered /\ guild THEN "Changed" ELSE "Raised")
    /\ UNCHANGED <<posted_games, posted_upcoming, last_daily_run,
                   pending_confirmations, posted_file, api_calls, now>>
    /\ UNCHANGED daily_log

\* Lines 233-249: the sends to one channel finish (line 245), or one of them
\* raises and the except clause logs it (line 247); the loop goes on to the
\* next channel and, after the last one, the run returns True.  Both
\* lines evaluate channel.guild.name: in the channel of a /check that has
\* no guild, line 245 raises inside the try, or the send does, and line 247
\* raises in the except clause, which ends run_check by the exception.
run_check_announce(r, delivered, guild) ==
    /\ pc[r] = "announcing"
    /\ r \notin ManualRuns => guild
    /\ IF todo[r] > 1
       THEN /\ todo' = [todo EXCEPT ![r] = todo[r] - 1]
            /\ posted_to' = [posted_to EXCEPT ![r] = Append(@, delivered)]
            /\ UNCHANGED <<pc, force, result>>
       ELSE Return(r, IF guild THEN "Changed" ELSE "Raised")
    /\ UNCHANGED <<posted_games, posted_upcoming, last_daily_run,
                   pending_confirmations, posted_file, api_calls, now>>
    /\ UNCHANGED daily_log

\* Mutant: the instant of the expiry is outside the window.
Consumable_strict(pending, u, t) ==
    u \in DOMAIN pending /\ t < pending[u]

\* Lines 397-398, "expiry and now <= expiry": the reply shows the games
\* (lines 399-406); otherwise it is the refusal of line 408.
Consumable(pending, u, t) ==
    u \in DOMAIN pending /\ t <= pending[u]

\* Line 399: pending_confirmations.pop(mention).
PopToken(pending, u) == [v \in DOMAIN pending \ {u} |-> pending[v]]

\* Lines 397-408: pending_confirmations after /confirm by u at time t.
AfterConfirm(pending, u, t) ==
    IF Consumable(pending, u, t) THEN PopToken(pending, u) ELSE pending

\* confirm_slash, lines 396-408, after the deferral of line 395.  When
\* make_embeds raises on line 400 the entry has been popped already.
confirm_slash(u) ==
    /\ u \in Users
    /\ ~Down
    /\ pending_confirmations' = AfterConfirm(pending_confirmations, u, now)
    /\ UNCHANGED <<posted_games, posted_upcoming, last_daily_run,
                   posted_file, api_calls, now, pc, force, todo, posted_to,
                   result>>
    /\ UNCHANGED daily_log

(***************************************************************************)
(* The process dies and is started again: lines 61-75 run on the file as   *)
(* it is.  The process can also die inside save_posted or inside           *)
(* increment_api_calls, after open() has truncated the file and before     *)
(* json.dump has written it, or while json.dump is writing it.  When the   *)
(* load of lines 66-75 raises, the start fails: there is no process, until *)
(* a later start finds a file it can load.                                 *)
(***************************************************************************)
Restart(file) ==
    /\ posted_games' = LoadPosted(file).current
    /\ posted_upcoming' = LoadPosted(file).upcoming
    /\ last_daily_run' = LoadPosted(file).last_daily_run
    /\ pending_confirmations' = <<>>
    /\ pc' = [r \in Runs |-> IF LoadRaises(file) THEN "down" ELSE "idle"]
    /\ force' = [r \in Runs |-> FALSE]
    /\ todo' = [r \in Runs |-> 0]
    /\ posted_to' = [r \in Runs |-> <<>>]
    /\ result' = [r \in Runs |-> "None"]

crash ==
    /\ Restart(posted_file)
    /\ UNCHANGED <<posted_file, api_calls, now>>
    /\ UNCHANGED daily_log

\* The process dies inside increment_api_calls (lines 49-50), called by a
\* /check or, when tick, by the iteration of daily_check at the present
\* time: that one has passed the gate and printed line 486 already.
crash_in_count(tick) ==
    /\ ~Down
    /\ tick => /\ now \in TickTimes
               /\ pc["sched"] = "idle"
               /\ DailyGate(now, last_daily_run)
    /\ api_calls' = NoCalls
    /\ Restart(posted_file)
    /\ daily_log' = IF tick THEN TimeStr(now) ELSE daily_log
    /\ UNCHANGED <<posted_file, now>>

\* The process dies inside save_posted (lines 83-88); cut tells whether the
\* bytes that reached the file end inside a character.
crash_in_save(r, resp, cut) ==
    /\ pc[r] = "fetching"
    /\ ~FetchFailed(resp)
    /\ ~SameAsPosted(resp, posted_games, force[r])
    /\ cut => HasMultiByte(save_posted(CommitCurrent(resp),
                                       CommitUpcoming(resp, posted_upcoming),
                                       CommitDailyRun(now)))
    /\ posted_file' = IF cut THEN CutFile ELSE PartialFile
    /\ Restart(posted_file')
    /\ UNCHANGED <<api_calls, now>>
    /\ UNCHANGED daily_log

Next ==
    \/ \E t \in FirstDay : Advance(t)
    \/ \E t \in FirstDay, counted \in WriteOutcomes : daily_check(t, counted)
    \/ \E r \in ManualRuns, counted \in WriteOutcomes : check_slash(r, counted)
    \/ \E r \in Runs, resp \in Responses : run_check_failed(r, resp)
    \/ \E r \in Runs, resp \in Responses : run_check_no_channels(r, resp)
    \/ \E r \in Runs, resp \in Responses : run_check_unchanged(r, resp)
    \/ \E r \in Runs : \E sent \in BOOLEAN : run_check_notified(r, sent)
    \/ \E r \in Runs, resp \in Responses, nch \in 1..MaxChannels,
          outcome \in SaveOutcomes, guild \in BOOLEAN :
          run_check_commit(r, resp, nch, outcome, guild)
    \/ \E r \in Runs : \E delivered, guild \in BOOLEAN :
          run_check_announce(r, delivered, guild)
    \/ \E u \in Users : confirm_slash(u)
    \/ crash
    \/ \E tick \in BOOLEAN : crash_in_count(tick)
    \/ \E r \in Runs, resp \in Responses, cut \in BOOLEAN :
          crash_in_save(r, resp, cut)

Spec == Init /\ [][Next]_vars

(***************************************************************************)
(* The model of the scheduler: the ticks of the days 0..MaxDay, the        *)
(* scheduled run and one /check at a time beside it, a call counter that   *)
(* can fail to be written, and a state file that is written.               *)
(***************************************************************************)
NextSched ==
    \/ \E t \in Times : Advance(t)
    \/ \E t \in TickTimes, counted \in WriteOutcomes : daily_check(t, counted)
    \/ \E counted \in WriteOutcomes : check_slash(FirstManual, counted)
    \/ \E r \in Runs, resp \in Responses : run_check_failed(r, resp)
    \/ \E r \in Runs, resp \in Responses : run_check_no_channels(r, resp)
    \/ \E r \in Runs, resp \in Responses : run_check_unchanged(r, resp)
    \/ \E r \in Runs : \E sent \in BOOLEAN : run_check_notified(r, sent)
    \/ \E r \in Runs, resp \in Responses, nch \in 1..MaxChannels,
          guild \in BOOLEAN : run_check_commit(r, resp, nch, "ok", guild)
    \/ \E r \in Runs : \E delivered, guild \in BOOLEAN :
          run_check_announce(r, delivered, guild)

SpecSched == Init /\ [][NextSched]_vars

(***************************************************************************)
(* The model of the fetch: on one day, the scheduled run and one manual    *)
(* run at a time beside it, forced or not, a call counter that can fail to *)
(* be written, a catalog that can fail to answer, and a state file that is *)
(* written.                                                                *)
(***************************************************************************)
NextFetch ==
    \/ \E t \in FirstDay : Advance(t)
    \/ \E t \in FirstDay, counted \in WriteOutcomes : daily_check(t, counted)
    \/ \E counted \in WriteOutcomes : check_slash(FirstManual, counted)
    \/ \E counted \in WriteOutcomes : forced_check(FirstManual, counted)
    \/ \E r \in Runs, resp \in Responses : run_check_failed(r, resp)
    \/ \E r \in Runs, resp \in Responses : run_check_no_channels(r, resp)
    \/ \E r \in Runs, resp \in Responses : run_check_unchanged(r, resp)
    \/ \E r \in Runs : \E sent \in BOOLEAN : run_check_notified(r, sent)
    \/ \E r \in Runs, resp \in Responses, nch \in 1..MaxChannels,
          guild \in BOOLEAN : run_check_commit(r, resp, nch, "ok", guild)
    \/ \E r \in Runs : \E delivered, guild \in BOOLEAN :
          run_check_announce(r, delivered, guild)

SpecFetch == Init /\ [][NextFetch]_vars

(***************************************************************************)
(* The sequential model: reconciliations one after the other within one    *)
(* day, the scheduler tick at that day's trigger time, writes that         *)
(* succeed, no crash, and every snapshot of Snapshots as a catalog answer. *)
(***************************************************************************)
Quiet == \A r \in Runs : pc[r] = "idle"

NextData ==
    \/ Quiet /\ \E t \in TriggerTimes : daily_check(t, "ok")
    \/ Quiet /\ check_slash(FirstManual, "ok")
    \/ Quiet /\ forced_check(FirstManual, "ok")
    \/ \E r \in Runs, resp \in DataResponses : run_check_failed(r, resp)
    \/ \E r \in Runs, resp \in DataResponses : run_check_no_channels(r, resp)
    \/ \E r \in Runs, resp \in DataResponses : run_check_unchanged(r, resp)
    \/ \E r \in Runs : \E sent \in BOOLEAN : run_check_notified(r, sent)
    \/ \E r \in Runs, resp \in DataResponses, nch \in 1..MaxChannels,
          guild \in BOOLEAN : run_check_commit(r, resp, nch, "ok", guild)
    \/ \E r \in Runs : \E delivered, guild \in BOOLEAN :
          run_check_announce(r, delivered, guild)

SpecData == Init /\ [][NextData]_vars

(***************************************************************************)
(* The model of the confirmations: the scheduled run, the owner's /check   *)
(* commands, anybody's /confirm in any order with them, and a clock that   *)
(* advances minute by minute, so that a confirmation is met before, at and *)
(* after its expiry.                                                       *)
(***************************************************************************)
NextTokens ==
    \/ \E t \in TokenTimes : Advance(t)
    \/ \E t \in TriggerTimes : daily_check(t, "ok")
    \/ \E r \in ManualRuns : check_slash(r, "ok")
    \/ \E r \in Runs, resp \in Responses : run_check_failed(r, resp)
    \/ \E r \in Runs, resp \in Responses : run_check_no_channels(r, resp)
    \/ \E r \in Runs, resp \in Responses : run_check_unchanged(r, resp)
    \/ \E r \in Runs : \E sent \in BOOLEAN : run_check_notified(r, sent)
    \/ \E r \in Runs, resp \in Responses, nch \in 1..MaxChannels,
          guild \in BOOLEAN : run_check_commit(r, resp, nch, "ok", guild)
    \/ \E r \in Runs : \E delivered, guild \in BOOLEAN :
          run_check_announce(r, delivered, guild)
    \/ \E u \in Users : confirm_slash(u)

SpecTokens == Init /\ [][NextTokens]_vars

(***************************************************************************)
(* The model of the call counter: the bot starts on any api_calls.json a   *)
(* previous run can have left, below, at and above the warning threshold,  *)
(* in the current month or in an earlier one; the file can fail to be      *)
(* written, and the process can die while writing it.                      *)
(***************************************************************************)
StoredCalls ==
    {NoCalls}
        \cup [count : (WarnThreshold - 1)..(WarnThreshold + 1),
               month : {"2024-12", "2025-01"}]

InitCalls ==
    /\ posted_file = NoFile
    /\ posted_games = LoadPosted(NoFile).current
    /\ posted_upcoming = LoadPosted(NoFile).upcoming
    /\ last_daily_run = LoadPosted(NoFile).last_daily_run
    /\ pending_confirmations = <<>>
    /\ api_calls \in StoredCalls
    /\ now = TriggerMinute - TickPeriod
    /\ pc = [r \in Runs |-> "idle"]
    /\ force = [r \in Runs |-> FALSE]
    /\ todo = [r \in Runs |-> 0]
    /\ posted_to = [r \in Runs |-> <<>>]
    /\ result = [r \in Runs |-> "None"]
    /\ daily_log = None

NextCalls ==
    \/ \E t \in Times : Advance(t)
    \/ \E t \in TickTimes, counted \in WriteOutcomes : daily_check(t, counted)
    \/ \E counted \in WriteOutcomes : check_slash(FirstManual, counted)
    \/ \E tick \in BOOLEAN : crash_in_count(tick)
    \/ \E r \in Runs, resp \in Responses : run_check_failed(r, resp)
    \/ \E r \in Runs, resp \in Responses : run_check_no_channels(r, resp)
    \/ \E r \in Runs, resp \in Responses : run_check_unchanged(r, resp)
    \/ \E r \in Runs : \E sent \in BOOLEAN : run_check_notified(r, sent)
    \/ \E r \in Runs, resp \in Responses, nch \in 1..MaxChannels,
          guild \in BOOLEAN : run_check_commit(r, resp, nch, "ok", guild)
    \/ \E r \in Runs : \E delivered, guild \in BOOLEAN :
          run_check_announce(r, delivered, guild)

SpecCalls == InitCalls /\ [][NextCalls]_vars

(***************************************************************************)
(* The model of the announce loop: overlapping scheduled and manual runs   *)
(* on one day, up to MaxFanout destination channels, state-file writes     *)
(* that succeed or fail, deliveries that succeed or fail.                  *)
(***************************************************************************)
NextAnnounce ==
    \/ \E t \in TriggerTimes : daily_check(t, "ok")
    \/ \E r \in ManualRuns : check_slash(r, "ok")
    \/ \E r \in Runs, resp \in Responses : run_check_failed(r, resp)
    \/ \E r \in Runs, resp \in Responses : run_check_no_channels(r, resp)
    \/ \E r \in Runs, resp \in Responses : run_check_unchanged(r, resp)
    \/ \E r \in Runs : \E sent \in BOOLEAN : run_check_notified(r, sent)
    \/ \E r \in Runs, resp \in Responses, nch \in 1..MaxFanout,
          outcome \in SaveOutcomes, guild \in BOOLEAN :
          run_check_commit(r, resp, nch, outcome, guild)
    \/ \E r \in Runs : \E delivered, guild \in BOOLEAN :
          run_check_announce(r, delivered, guild)

SpecAnnounce == Init /\ [][NextAnnounce]_vars

(***************************************************************************)
(* Vocabulary of the properties.                                           *)
(***************************************************************************)
\* Run r resumes from the fetch with the answer resp and runs to its next
\* suspension or to its return (lines 192-228, whichever branch).
RunCheckWith(r, resp) ==
    \/ run_check_failed(r, resp)
    \/ run_check_no_channels(r, resp)
    \/ run_check_unchanged(r, resp)
    \/ \E nch \in 1..MaxChannels, outcome \in SaveOutcomes, guild \in BOOLEAN :
          run_check_commit(r, resp, nch, outcome, guild)

\* The same, for a run that has a destination channel and whose state file
\* can be written.
RunCheckDelivering(r, resp) ==
    \/ run_check_unchanged(r, resp)
    \/ \E nch \in 1..MaxChannels, guild \in BOOLEAN :
          run_check_commit(r, resp, nch, "ok", guild)

\* The stored state, in memory and on disk, is what it was.
StateUntouched ==
    UNCHANGED <<posted_games, posted_upcoming, last_daily_run, posted_file>>

\* The snapshots whose current items have the titles of games, and the others.
SameTitled(games) ==
    {resp \in Snapshots : TitleSet(resp.currentGames) = TitleSet(games)}
OtherTitled(games) == Snapshots \ SameTitled(games)

\* The ticks of the day of t that come after t.
LaterTicksOfDay(t) == {u \in TickTimes : u > t /\ DateOf(u) = DateOf(t)}

(***************************************************************************)
(* C1 (as claimed): when a scheduled reconcile returns Changed or          *)
(* Unchanged, no later scheduler tick of the same calendar day passes the  *)
(* gate, the daily-run marker having been advanced to today.               *)
(***************************************************************************)
C1_AtMostOncePerDay ==
    [][ ( /\ pc["sched"] # "idle"
          /\ pc'["sched"] = "idle"
          /\ result'["sched"] \in {"Changed", "Unchanged"} )
        => \A t \in LaterTicksOfDay(now') : ~DailyGate(t, last_daily_run') ]_vars

(***************************************************************************)
(* C2 (as claimed): a non-forced reconcile whose snapshot has the title    *)
(* set of posted_games returns Unchanged and leaves posted_games,          *)
(* posted_upcoming, last_daily_run and the state file as they were.        *)
(***************************************************************************)
C2_UnchangedIsNoOp ==
    [][ \A r \in Runs :
          /\ \A resp \in Snapshots :
                ( /\ ~force[r]
                  /\ TitleSet(resp.currentGames) = TitleSet(posted_games)
                  /\ RunCheckWith(r, resp) )
                => /\ StateUntouched
                   /\ pc'[r] = "notifying" \/ result'[r] = "Unchanged"
          /\ (\E sent \in BOOLEAN : run_check_notified(r, sent))
                => StateUntouched /\ result'[r] = "Unchanged" ]_vars

(***************************************************************************)
(* C2 (amended): such a reconcile leaves posted_games, posted_upcoming,    *)
(* last_daily_run and the state file as they were, whatever it returns; it *)
(* returns Unchanged when it has a destination channel and, for a manual   *)
(* run, the notice to the requester is sent.  A scheduled run that finds   *)
(* no channel returns Failed; a notice that cannot be sent ends the run    *)
(* with an exception.                                                      *)
(***************************************************************************)
C2_UnchangedIsNoOpGivenChannel ==
    [][ \A r \in Runs :
          /\ (pc[r] = "fetching" /\ pc'[r] # "fetching" /\ ~force[r])
             => \A resp \in SameTitled(posted_games) :
                   /\ run_check_unchanged(r, resp)
                         => /\ StateUntouched
                            /\ pc'[r] = "notifying" \/ result'[r] = "Unchanged"
                   /\ run_check_no_channels(r, resp)
                         => StateUntouched /\ result'[r] = "Failed"
                   /\ \A nch \in 1..MaxChannels, outcome \in SaveOutcomes,
                         guild \in BOOLEAN :
                         ~run_check_commit(r, resp, nch, outcome, guild)
          /\ run_check_notified(r, TRUE)
                => StateUntouched /\ result'[r] = "Unchanged"
          /\ run_check_notified(r, FALSE)
                => StateUntouched /\ result'[r] = "Raised" ]_vars

\* A reconcile returned Unchanged on a stored list of two items, one of
\* them stored with other fields than the catalog lists.
C2_Witness ==
    /\ \E r \in Runs : result[r] = "Unchanged"
    /\ TitleSet(posted_games) = {"Alpha", "Beta"}
    /\ posted_file.kind = "json"

Dedup(current, upcoming) == TitleSet(current) \cap TitleSet(upcoming) = {}

DedupInvariant ==
    /\ Dedup(posted_games, posted_upcoming)
    /\ posted_file.kind = "json"
          => Dedup(posted_file.current, posted_file.upcoming)

TakesChangedPath(r) == pc'[r] = "announcing" \/ result'[r] = "Changed"

(***************************************************************************)
(* C3 (as claimed, for the reconciles that have a destination channel and  *)
(* whose state file is written): a reconcile whose snapshot has another    *)
(* title set than posted_games takes the Changed path (a scheduled run     *)
(* that finds no channel returns Failed and stores nothing); and no title  *)
(* is ever in both the current and the upcoming list, in memory or in the  *)
(* state file.                                                             *)
(***************************************************************************)
C3_ChangedGivenChannelAndDedup ==
    /\ []DedupInvariant
    /\ [][ \A r \in Runs :
             (pc[r] = "fetching" /\ pc'[r] # "fetching")
             => \A resp \in OtherTitled(posted_games) :
                   /\ \A nch \in 1..MaxChannels, guild \in BOOLEAN :
                         run_check_commit(r, resp, nch, "ok", guild)
                         => TakesChangedPath(r)
                   /\ run_check_no_channels(r, resp)
                         => StateUntouched /\ result'[r] = "Failed"
                   /\ ~run_check_unchanged(r, resp) ]_vars

(***************************************************************************)
(* C4: when the fetch fails (the request fails, or fetch_games gives up    *)
(* before the request), the run returns Failed whatever triggered it, and  *)
(* posted_games, posted_upcoming, last_daily_run, the state file and       *)
(* pending_confirmations are what they were: the failure is not taken for  *)
(* an empty catalog.                                                       *)
(***************************************************************************)
\* Run r has returned False and the stored state is what it was.
FailedNeutrally(r) ==
    /\ pc'[r] = "idle" /\ result'[r] = "Failed"
    /\ StateUntouched
    /\ UNCHANGED pending_confirmations

C4_FetchFailureIsNeutral ==
    [][ /\ \A r \in Runs : RunCheckWith(r, FetchError) => FailedNeutrally(r)
        /\ \A counted \in WriteOutcomes \ {"ok"} :
              /\ \A r \in ManualRuns :
                    check_slash(r, counted) => FailedNeutrally(r)
              /\ \A t \in TickTimes :
                    ( /\ MinuteOf(t) >= TriggerMinute
                      /\ last_daily_run # <<DateOf(t)>>
                      /\ daily_check(t, counted) )
                    => FailedNeutrally("sched") ]_vars

\* A manual run failed while items were stored and a confirmation pending.
C4_Witness ==
    /\ result["manual"] = "Failed"
    /\ posted_games # <<>>
    /\ posted_file.kind = "json" /\ posted_file.current = posted_games
    /\ Owner \in DOMAIN pending_confirmations

(***************************************************************************)
(* C5: a scheduled reconcile that returns Failed leaves the daily-run      *)
(* marker and the state file alone; after it, as long as the marker is not *)
(* today's date, every scheduler tick at or after the trigger time calls   *)
(* run_check again, and no tick before the trigger time does.              *)
(***************************************************************************)
\* The tick at time t has called run_check (lines 486-487): it has logged
\* its time, and the run is suspended in its fetch or, when the call counter
\* could not be written, has returned False already.
TickInvokes(t, counted) ==
    /\ daily_log' = TimeStr(t)
    /\ IF counted = "ok"
       THEN pc'["sched"] = "fetching"
       ELSE pc'["sched"] = "idle" /\ result'["sched"] = "Failed"

\* The tick has not called run_check: it has logged nothing, counted no
\* attempt, and no run has started or returned.
TickSkips ==
    /\ pc'["sched"] = "idle"
    /\ UNCHANGED <<daily_log, api_calls, result>>

C5_RetryAfterFailure ==
    [][ /\ ( /\ pc'["sched"] = "idle"
             /\ result'["sched"] = "Failed"
             /\ pc["sched"] = "fetching" \/ daily_log' # daily_log )
           => UNCHANGED <<last_daily_run, posted_file>>
        /\ \A t \in TickTimes, counted \in WriteOutcomes :
              (result["sched"] = "Failed" /\ daily_check(t, counted))
              => IF /\ MinuteOf(t) >= TriggerMinute
                    /\ last_daily_run # <<DateOf(t)>>
                 THEN TickInvokes(t, counted)
                 ELSE TickSkips ]_vars

\* A scheduled run has failed after the trigger time and a later tick of
\* the day is still to come, with the gate open.
C5_Witness ==
    /\ result["sched"] = "Failed"
    /\ pc["sched"] = "idle"
    /\ MinuteOf(now) = TriggerMinute
    /\ daily_log = TimeStr(now)
    /\ \E t \in LaterTicksOfDay(now) : DailyGate(t, last_daily_run)

(***************************************************************************)
(* C6: a scheduler tick calls run_check if and only if the local time is   *)
(* 17:01 or later and last_daily_run is not today's date.                  *)
(***************************************************************************)
C6_SchedulerGate ==
    [][ \A t \in TickTimes, counted \in WriteOutcomes :
          daily_check(t, counted)
          => /\ IF /\ MinuteOf(t) >= TriggerMinute
                   /\ last_daily_run # <<DateOf(t)>>
                THEN TickInvokes(t, counted)
                ELSE TickSkips
             /\ (pc'["sched"] = "fetching" \/ daily_log' # daily_log)
                   => /\ MinuteOf(t) >= TriggerMinute
                      /\ last_daily_run # <<DateOf(t)>> ]_vars

\* The gate has re-armed: the marker is day 0, and the one fetch attempt of
\* day 1 is the scheduled run's.
C6_Witness ==
    /\ pc["sched"] = "fetching" /\ pc["manual"] = "idle"
    /\ last_daily_run = <<0>>
    /\ DateOf(now) = 1
    /\ daily_log = TimeStr(now)
    /\ api_calls = [count |-> 1, month |-> MonthOf(now)]

(***************************************************************************)
(* C7 (as claimed): every reconcile that takes the Changed path sets       *)
(* last_daily_run to today's date and writes it to the state file; no tick *)
(* starts a reconcile while the marker is today's date; and so, once the   *)
(* marker has been set and written today, it closes the gate for the rest  *)
(* of the day.                                                             *)
(***************************************************************************)
MarkedAndPersistedToday ==
    /\ last_daily_run = DateStr(now)
    /\ posted_file.kind = "json"
    /\ posted_file.last_daily_run = DateStr(now)

C7_ChangedClosesTheDay ==
    [][ /\ \A r \in Runs, resp \in Responses, nch \in 1..MaxChannels,
              guild \in BOOLEAN :
              run_check_commit(r, resp, nch, "ok", guild)
              => /\ last_daily_run' = <<DateOf(now)>>
                 /\ posted_file'.last_daily_run = <<DateOf(now)>>
        /\ \A t \in TickTimes, counted \in WriteOutcomes :
              (daily_check(t, counted) /\ last_daily_run = <<DateOf(t)>>)
              => TickSkips
        /\ (MarkedAndPersistedToday /\ DateOf(now') = DateOf(now))
              => last_daily_run' = <<DateOf(now')>> ]_vars

(***************************************************************************)
(* C8 (as claimed): at no time are two reconciliations in progress.        *)
(***************************************************************************)
InProgress == {r \in Runs : pc[r] \notin {"idle", "down"}}

C8_NoConcurrentReconcile == Cardinality(InProgress) <= 1

(***************************************************************************)
(* C9 (as claimed): a reconciliation whose state-file write fails reports  *)
(* no success and does not advance the marker the scheduler consults.      *)
(***************************************************************************)
C9_PersistenceFailureIsFatal ==
    [][ \A r \in Runs, resp \in Responses, nch \in 1..MaxChannels,
           outcome \in SaveOutcomes \ {"ok"}, guild \in BOOLEAN :
          run_check_commit(r, resp, nch, outcome, guild)
          => /\ ~ReturnValue(result'[r])
             /\ last_daily_run' = last_daily_run ]_vars

(***************************************************************************)
(* C10 (as claimed): when the process dies during a state-changing         *)
(* reconciliation that started from a stored record, the state file holds  *)
(* the complete record from before it or the complete record it was        *)
(* writing, and the restart loads that record, not the empty state.        *)
(***************************************************************************)
C10_AllOrNothing ==
    [][ \A r \in Runs, resp \in Responses, cut \in BOOLEAN :
          (posted_file.kind = "json" /\ crash_in_save(r, resp, cut))
          => /\ posted_file' \in
                  { posted_file,
                    save_posted(CommitCurrent(resp),
                                CommitUpcoming(resp, posted_upcoming),
                                CommitDailyRun(now)) }
             /\ posted_games' = posted_file'.current
             /\ posted_upcoming' = posted_file'.upcoming
             /\ last_daily_run' = posted_file'.last_daily_run ]_vars

(***************************************************************************)
(* C11: /confirm by u shows the games if and only if a confirmation of u   *)
(* is pending and now <= its expiry, the instant of the expiry included;   *)
(* showing removes the confirmation, so that no later /confirm of u shows  *)
(* the games until a reconcile arms a confirmation again; a confirmation   *)
(* appears or changes only by that arming; and the confirmations of the    *)
(* other requesters are what they were.                                    *)
(***************************************************************************)
\* The confirmations of the requesters other than u are the same in p, q.
OthersKept(p, q, u) ==
    \A v \in Users \ {u} :
       /\ v \in DOMAIN q <=> v \in DOMAIN p
       /\ v \in DOMAIN p => q[v] = p[v]

\* What /confirm by u would do in the present state.
ConfirmInWindow(u) ==
    LET pending == pending_confirmations
        after == AfterConfirm(pending, u, now)
        shown == Consumable(pending, u, now)
    IN  /\ shown <=> (u \in DOMAIN pending /\ now <= pending[u])
        /\ shown => /\ u \notin DOMAIN after
                    /\ \A t \in TokenTimes : ~Consumable(after, u, t)
        /\ OthersKept(pending, after, u)

Arming == \E r \in ManualRuns : pc[r] = "fetching" /\ pc'[r] = "notifying"

C11_ConsumedOnceInWindow ==
    /\ [](\A u \in Users : ConfirmInWindow(u))
    /\ [][ /\ \A u \in Users :
                 confirm_slash(u)
                 => /\ u \notin DOMAIN pending_confirmations'
                    /\ OthersKept(pending_confirmations,
                                  pending_confirmations', u)
           /\ \A u \in Users :
                 ( /\ u \in DOMAIN pending_confirmations'
                   /\ \/ u \notin DOMAIN pending_confirmations
                      \/ pending_confirmations'[u] # pending_confirmations[u] )
                 => Arming ]_vars

\* The owner's confirmation was armed by an unchanged /check and is gone
\* again, no later than at the instant of its expiry.
C11_Witness ==
    /\ result["manual"] = "Unchanged"
    /\ pending_confirmations = <<>>
    /\ now = TriggerMinute + ConfirmWindow
    /\ api_calls.count = 1

(***************************************************************************)
(* C12 (as claimed): a /confirm that meets an expired confirmation of its  *)
(* requester removes it: after a /confirm that is refused, the requester   *)
(* has no entry in pending_confirmations.                                  *)
(***************************************************************************)
C12_StaleTokenDeleted ==
    \A u \in Users :
       ~Consumable(pending_confirmations, u, now)
       => u \notin DOMAIN AfterConfirm(pending_confirmations, u, now)

(***************************************************************************)
(* C13: pending_confirmations gains or changes an entry only when a manual *)
(* run that was not forced finds the title set of posted_games in the      *)
(* snapshot; the entry is the requester's, its expiry is now + 1 minute,   *)
(* it replaces the requester's earlier entry, and the other entries stay.  *)
(* Scheduled runs, and runs that fail or take the Changed path, leave      *)
(* pending_confirmations alone.                                            *)
(***************************************************************************)
\* An entry of pending_confirmations is new or has another expiry.
Armed(u) ==
    /\ u \in DOMAIN pending_confirmations'
    /\ \/ u \notin DOMAIN pending_confirmations
       \/ pending_confirmations'[u] # pending_confirmations[u]

C13_TokenArming ==
    [][ /\ \A r \in ManualRuns :
              (pc[r] = "fetching" /\ pc'[r] = "notifying")
              => /\ DOMAIN pending_confirmations' =
                       DOMAIN pending_confirmations \cup {Mention(r)}
                 /\ pending_confirmations'[Mention(r)] = now + ConfirmWindow
                 /\ OthersKept(pending_confirmations,
                               pending_confirmations', Mention(r))
        /\ pending_confirmations' # pending_confirmations
              => \/ /\ \A u \in Users : ~Armed(u)
                    /\ pc' = pc \/ \A r \in Runs : pc'[r] = "idle"
                    /\ StateUntouched \/ \A r \in Runs : pc'[r] = "idle"
                 \/ \E r \in ManualRuns, resp \in Responses :
                       /\ ~force[r]
                       /\ run_check_unchanged(r, resp)
                       /\ TitleSet(resp.currentGames) = TitleSet(posted_games)
                       /\ \A u \in Users : Armed(u) => u = Mention(r) ]_vars

\* A second /check of the owner, made at the trigger time on a state that
\* no run has changed, found nothing new and armed the confirmation for
\* one minute from then.
C13_Witness ==
    /\ pc["manual"] = "notifying"
    /\ now = TriggerMinute
    /\ pending_confirmations = (Owner :> now + ConfirmWindow)
    /\ api_calls.count = 2
    /\ posted_games = <<>> /\ posted_file = NoFile
    /\ pc["sched"] = "idle" /\ result["sched"] = "None"

(***************************************************************************)
(* C14 (as claimed): a forced reconcile takes the Changed path and announces the        *)
(* snapshot's current items; and in the state it leaves, a second forced   *)
(* reconcile with the same snapshot takes the Changed path again with the  *)
(* same current items, has no upcoming item to announce, and stores the    *)
(* current and upcoming lists that are stored already.                     *)
(***************************************************************************)
C14_ForcedIdempotent ==
    [][ \A r \in ManualRuns, resp \in Snapshots, nch \in 1..MaxChannels,
           guild \in BOOLEAN :
          (force[r] /\ run_check_commit(r, resp, nch, "ok", guild))
          => /\ TakesChangedPath(r)
             /\ posted_games' = resp.currentGames
             /\ ~SameAsPosted(resp, posted_games', TRUE)
             /\ CommitCurrent(resp) = posted_games'
             /\ CommitUpcoming(resp, posted_upcoming') = posted_upcoming'
             /\ AnnouncedUpcoming(resp, posted_upcoming') = <<>>
             /\ LET again == save_posted(CommitCurrent(resp),
                                         CommitUpcoming(resp, posted_upcoming'),
                                         CommitDailyRun(now'))
                IN  /\ again.current = posted_file'.current
                    /\ again.upcoming = posted_file'.upcoming ]_vars

(***************************************************************************)
(* C15 (as claimed): an item without a title is equal to no other item:    *)
(* a reconcile takes its snapshot for unchanged only if every untitled     *)
(* current item of the snapshot is itself among the stored current items,  *)
(* and the Changed path lists every untitled upcoming item of the snapshot *)
(* that is not itself among the new current items or the stored upcoming   *)
(* items.                                                                  *)
(***************************************************************************)
Elems(games) == {games[i] : i \in DOMAIN games}
UntitledIn(games) == {g \in Elems(games) : g.title = NoTitle}

C15_UntitledAreDistinct ==
    [][ \A r \in Runs, resp \in Snapshots :
          /\ run_check_unchanged(r, resp)
                => UntitledIn(resp.currentGames) \subseteq Elems(posted_games)
          /\ \A nch \in 1..MaxChannels, guild \in BOOLEAN :
                run_check_commit(r, resp, nch, "ok", guild)
                => \A g \in UntitledIn(resp.nextGames) :
                      ( /\ g \notin Elems(resp.currentGames)
                        /\ g \notin Elems(posted_upcoming) )
                      => g \in Elems(posted_upcoming') ]_vars

(***************************************************************************)
(* C16 (as claimed): every fetch attempt, that of a /check and that of a   *)
(* tick that passes the gate, stores the call counter incremented by       *)
(* exactly one, after resetting it to 0 when the stored month is not the   *)
(* current month (so the first attempt of a month stores count 1 with the  *)
(* new month), and goes on to the request; no other step changes the       *)
(* counter; and the /check of the owner is never held back by the counter, *)
(* the values above the warning threshold included.                        *)
(***************************************************************************)
EntersFetch(r) == pc[r] = "idle" /\ pc'[r] = "fetching"

\* The counter after this step is the counter before it, plus one attempt.
CountedOnce ==
    /\ api_calls'.month = MonthOf(now')
    /\ api_calls'.count =
          IF api_calls.month = MonthOf(now') THEN api_calls.count + 1 ELSE 1

C16_ApiCallBudget ==
    /\ []( ( /\ pc["manual"] = "idle"
             /\ api_calls.count \in 0..(MaxCalls - 1)
                   \cup (WarnThreshold - 1)..(WarnThreshold + MaxCalls - 1) )
           => ENABLED check_slash("manual", "ok") )
    /\ [][ /\ \A r \in Runs : EntersFetch(r) => CountedOnce
           /\ \A counted \in WriteOutcomes :
                 /\ \A r \in ManualRuns :
                       check_slash(r, counted) => EntersFetch(r) /\ CountedOnce
                 /\ \A t \in TickTimes :
                       (DailyGate(t, last_daily_run) /\ daily_check(t, counted))
                       => EntersFetch("sched") /\ CountedOnce
           /\ (\A r \in Runs : ~EntersFetch(r)) => UNCHANGED api_calls ]_vars

(***************************************************************************)
(* C17: whether the delivery to a destination succeeds or fails, the       *)
(* announce loop goes on to the next destination, so that every            *)
(* destination is attempted; the result of the run is the same whether a   *)
(* delivery failed or not (Changed; for a /check in a channel without a    *)
(* guild the run ends by an exception either way); and posted_games,       *)
(* posted_upcoming, last_daily_run and the state file are what they were.  *)
(***************************************************************************)
\* Destinations of the loop of run r: those attempted and those left.
Attempted(r) == Len(posted_to[r])

C17_DeliveryIsolation ==
    [][ \A r \in Runs, delivered, guild \in BOOLEAN :
          run_check_announce(r, delivered, guild)
          => /\ StateUntouched
             /\ IF todo[r] > 1
                THEN /\ pc'[r] = "announcing"
                     /\ todo'[r] = todo[r] - 1
                     /\ Len(posted_to'[r]) = Attempted(r) + 1
                ELSE /\ pc'[r] = "idle"
                     /\ result'[r] = IF guild THEN "Changed" ELSE "Raised" ]_vars

\* The delivery to the first destination failed and the loop is at the
\* next one, the committed state being on file.
C17_Witness ==
    \E r \in Runs :
       /\ pc[r] = "announcing"
       /\ posted_to[r] = <<FALSE>>
       /\ todo[r] >= 1
       /\ posted_file.kind = "json" /\ posted_file.current = posted_games

(***************************************************************************)
(* C18: the Changed path makes posted_games the snapshot's current list;   *)
(* posted_upcoming becomes the stored upcoming entries whose title is not  *)
(* a new current title, in their order, followed by the snapshot's         *)
(* upcoming entries whose title is neither a new current title nor a       *)
(* retained one; the state file holds the same lists; and the announcement *)
(* carries the current items and these new upcoming entries only (the run  *)
(* announces when one of the two lists has an item).  From the empty       *)
(* state, ([Alpha], [Beta]) and then ([Beta], [Alpha]) end with current   *)
(* [Beta] and upcoming [Alpha].                                            *)
(***************************************************************************)
RECURSIVE Without(_, _)
Without(games, titles) ==
    IF games = <<>> THEN <<>>
    ELSE (IF Head(games).title \in titles THEN <<>> ELSE <<Head(games)>>)
            \o Without(Tail(games), titles)

C18_UpcomingRebuild ==
    [][ \A r \in Runs, resp \in Snapshots, nch \in 1..MaxChannels,
           guild \in BOOLEAN :
          run_check_commit(r, resp, nch, "ok", guild)
          => LET current == {g.title : g \in Elems(resp.currentGames)}
                 retained == Without(posted_upcoming, current)
                 fresh == Without(Without(resp.nextGames, current),
                                  {g.title : g \in Elems(retained)})
             IN  /\ posted_games' = resp.currentGames
                 /\ posted_upcoming' = retained \o fresh
                 /\ posted_file'.kind = "json"
                 /\ posted_file'.current = resp.currentGames
                 /\ posted_file'.upcoming = retained \o fresh
                 /\ AnnouncedUpcoming(resp, posted_upcoming) = fresh
                 /\ pc'[r] = "announcing"
                       => (resp.currentGames # <<>> \/ fresh # <<>>)
                 /\ result'[r] = "Changed"
                       => (resp.currentGames = <<>> /\ fresh = <<>>) ]_vars

\* The end of the example: current [Beta], upcoming [Alpha], on file.
C18_Witness ==
    /\ posted_games = <<Beta>>
    /\ posted_upcoming = <<Alpha>>
    /\ posted_file.kind = "json"
    /\ posted_file.current = <<Beta>> /\ posted_file.upcoming = <<Alpha>>
    /\ \E r \in Runs : result[r] = "Changed"

(***************************************************************************)
(* C19 (as claimed): when a run starts to announce, posted_games,          *)
(* posted_upcoming and last_daily_run hold the new state and the state     *)
(* file holds it too; no delivery, failed or not, changes them; and a      *)
(* later reconcile that is not forced and gets the recorded snapshot       *)
(* returns Unchanged, announcing and storing nothing.                      *)
(***************************************************************************)
StartsAnnouncing(r) == pc[r] = "fetching" /\ pc'[r] = "announcing"

Committed ==
    /\ last_daily_run' = DateStr(now)
    /\ posted_file' = save_posted(posted_games', posted_upcoming',
                                  last_daily_run')
    /\ \E resp \in Catalog : posted_games' = resp.currentGames

\* The snapshots whose current list is the recorded one.
Recorded ==
    {resp \in Catalog :
        /\ resp.currentGames = posted_games
        /\ posted_file.kind = "json"
        /\ posted_file.current = posted_games}

C19_CommitPrecedesAnnounce ==
    [][ \A r \in Runs :
          /\ StartsAnnouncing(r) => Committed
          /\ (\E delivered, guild \in BOOLEAN :
                 run_check_announce(r, delivered, guild))
                => StateUntouched
          /\ \A resp \in Recorded :
                (~force[r] /\ RunCheckWith(r, resp))
                => /\ StateUntouched
                   /\ pc'[r] = "notifying" \/ result'[r] = "Unchanged"
          /\ (\E sent \in BOOLEAN : run_check_notified(r, sent))
                => StateUntouched /\ result'[r] = "Unchanged" ]_vars

(***************************************************************************)
(* C19 (amended): when a run starts to announce, posted_games,             *)
(* posted_upcoming and last_daily_run hold the new state and the state     *)
(* file holds it too; no delivery, failed or not, changes them; and a      *)
(* later reconcile that is not forced and gets the recorded snapshot       *)
(* announces and stores nothing: it returns Unchanged when it has a        *)
(* destination channel and, for a manual run, the notice to the requester  *)
(* is sent; a scheduled run that finds no channel returns Failed, and a    *)
(* notice that cannot be sent ends the run with an exception.              *)
(***************************************************************************)
C19_CommitPrecedesAnnounceGivenChannel ==
    [][ \A r \in Runs :
          /\ StartsAnnouncing(r) => Committed
          /\ (\E delivered, guild \in BOOLEAN :
                 run_check_announce(r, delivered, guild))
                => StateUntouched
          /\ \A resp \in Recorded :
                /\ (~force[r] /\ run_check_unchanged(r, resp))
                      => /\ StateUntouched
                         /\ pc'[r] = "notifying" \/ result'[r] = "Unchanged"
                /\ (~force[r] /\ run_check_no_channels(r, resp))
                      => StateUntouched /\ result'[r] = "Failed"
                /\ ~force[r]
                      => \A nch \in 1..MaxFanout, outcome \in SaveOutcomes,
                            guild \in BOOLEAN :
                            ~run_check_commit(r, resp, nch, outcome, guild)
          /\ run_check_notified(r, TRUE)
                => StateUntouched /\ result'[r] = "Unchanged"
          /\ run_check_notified(r, FALSE)
                => StateUntouched /\ result'[r] = "Raised" ]_vars

\* The scheduled run committed a snapshot, its first delivery failed and
\* it is still announcing; the /check that came after it got the same
\* snapshot and returned Unchanged.
C19_Witness ==
    /\ pc["sched"] = "announcing"
    /\ posted_to["sched"] = <<FALSE>>
    /\ result["manual"] = "Unchanged"
    /\ posted_games # <<>>
    /\ posted_file.kind = "json" /\ posted_file.current = posted_games

(***************************************************************************)
(* C20 (as claimed): when a manual and a scheduled run, neither forced,    *)
(* wait for the catalog at the same time and the first to resume gets a    *)
(* snapshot whose title set is not the stored one, that run commits it and *)
(* takes the Changed path, the state file holds the commit, and the other  *)
(* run, given the same snapshot, finds it unchanged.                       *)
(***************************************************************************)
BothFetching ==
    /\ pc["sched"] = "fetching" /\ ~force["sched"]
    /\ \E m \in ManualRuns : pc[m] = "fetching" /\ ~force[m]

C20_SingleCommit ==
    [][ \A r \in Runs, resp \in Catalog :
          ( /\ BothFetching
            /\ TitleSet(resp.currentGames) # TitleSet(posted_games)
            /\ \E nch \in 1..MaxChannels, outcome \in SaveOutcomes,
                  guild \in BOOLEAN :
                  run_check_commit(r, resp, nch, outcome, guild) )
          => /\ TakesChangedPath(r)
             /\ posted_file' = save_posted(resp.currentGames, posted_upcoming',
                                           DateStr(now))
             /\ SameAsPosted(resp, posted_games', FALSE) ]_vars

(***************************************************************************)
(* C21 (as claimed): starting from the empty state, whatever snapshots the *)
(* reconciles get, a snapshot that lists a title twice among its upcoming  *)
(* items included, no title occurs more than once in posted_upcoming, in   *)
(* memory or in the state file.                                            *)
(***************************************************************************)
DistinctTitles(games) ==
    \A i, j \in DOMAIN games :
       (i # j /\ games[i].title # NoTitle) => games[i].title # games[j].title

C21_NoDuplicateUpcoming ==
    /\ DistinctTitles(posted_upcoming)
    /\ posted_file.kind = "json" => DistinctTitles(posted_file.upcoming)

====
